---- MODULE Spec2Model ----
(***************************************************************************)
(* QueryString.js (timmc/js-tools): parse a URL query string into an       *)
(* ordered pair list plus a key -> values dictionary, derive new instances *)
(* with plus / minus, and serialise with toString.                         *)
(*                                                                         *)
(* A JavaScript string is modelled as the sequence of its UTF-16 code      *)
(* units (integers), so that percent-decoding, String.fromCharCode and     *)
(* encodeURIComponent are arithmetic and not the identity.                 *)
(***************************************************************************)
EXTENDS Integers, Sequences, FiniteSets, TLC

VARIABLES
    location,   \* location.search of the hosting page (read by `new QueryString()`)
    heap,       \* the value lists (JS arrays) reachable from some dict, by reference
    objs,       \* the QueryString instances created so far, in creation order
    last        \* the last call made: its operation, arguments and outcome

vars == <<location, heap, objs, last>>

---------------------------------------------------------------------------
(* Characters the code names.                                              *)

QMARK == 63
AMP == 38
EQ == 61
PCT == 37
PLUS == 43
SPACE == 32

(* null and undefined, and the outcome of a call that raised: sequences    *)
(* that are no string (a code unit is never negative).                     *)
NULL == << -1 >>
UNDEFINED == << -2 >>
Thrown == << -3 >>

(* Names used as literals below.                                           *)
Str_null == <<110, 117, 108, 108>>
Str_undefined == <<117, 110, 100, 101, 102, 105, 110, 101, 100>>
Str_proto == <<95, 95, 112, 114, 111, 116, 111, 95, 95>>
Str_hasOwnProperty == <<104, 97, 115, 79, 119, 110, 80, 114, 111, 112, 101, 114, 116, 121>>
Str_constructor == <<99, 111, 110, 115, 116, 114, 117, 99, 116, 111, 114>>
Str_toString == <<116, 111, 83, 116, 114, 105, 110, 103>>
Str_toLocaleString == <<116, 111, 76, 111, 99, 97, 108, 101, 83, 116, 114, 105, 110, 103>>
Str_valueOf == <<118, 97, 108, 117, 101, 79, 102>>
Str_isPrototypeOf == <<105, 115, 80, 114, 111, 116, 111, 116, 121, 112, 101, 79, 102>>
Str_propertyIsEnumerable == <<112, 114, 111, 112, 101, 114, 116, 121, 73, 115, 69, 110, 117, 109, 101, 114, 97, 98, 108, 101>>

(* The properties every `{}` inherits from Object.prototype: reading one   *)
(* of them from a fresh dict yields a truthy value that is no array.       *)
ObjectPrototypeNames ==
    { Str_proto, Str_hasOwnProperty, Str_constructor, Str_toString,
      Str_toLocaleString, Str_valueOf, Str_isPrototypeOf,
      Str_propertyIsEnumerable }

---------------------------------------------------------------------------
(* Hexadecimal digits.                                                     *)

HexVal(c) ==
    IF c \in 48..57 THEN c - 48
    ELSE IF c \in 65..70 THEN c - 55
    ELSE IF c \in 97..102 THEN c - 87
    ELSE -1

IsHex(c) == HexVal(c) >= 0

\* [0-9A-F]: the regular expressions of QueryString.decode have no i flag
IsUpperHex(c) == c \in 48..57 \/ c \in 65..70

HexDigit(n) == IF n < 10 THEN 48 + n ELSE 55 + n

\* "%XX" for a byte, as encodeURIComponent writes it (upper case)
Escape(b) == <<PCT, HexDigit(b \div 16), HexDigit(b % 16)>>

\* s has a "%XX" escape (either case) at i
HasEscape(s, i) ==
    /\ i + 2 <= Len(s)
    /\ s[i] = PCT
    /\ IsHex(s[i + 1])
    /\ IsHex(s[i + 2])

\* the byte of the escape at i
EscapeByte(s, i) == 16 * HexVal(s[i + 1]) + HexVal(s[i + 2])

\* s.replace(/\+/g, ' ')
PlusToSpace(s) == [i \in 1..Len(s) |-> IF s[i] = PLUS THEN SPACE ELSE s[i]]

\* x followed by r, unless what follows raised
Then(x, r) == IF r = Thrown THEN Thrown ELSE x \o r

---------------------------------------------------------------------------
(* decodeURIComponent (ECMAScript Decode with an empty reserved set):      *)
(* raises URIError on a '%' without two hex digits and on escapes that are *)
(* not the UTF-8 encoding of a code point.                                 *)

\* number of octets the lead byte b announces; 0 when b cannot lead
Utf8Len(b) ==
    IF b < 128 THEN 1
    ELSE IF b \in 192..223 THEN 2
    ELSE IF b \in 224..239 THEN 3
    ELSE IF b \in 240..247 THEN 4
    ELSE 0

\* the n - 1 escapes after the lead at i are continuation bytes 10xxxxxx
HasContinuations(s, i, n) ==
    \A j \in 1..(n - 1) :
        /\ HasEscape(s, i + 3 * j)
        /\ EscapeByte(s, i + 3 * j) \in 128..191

\* the code point packed in the n octets whose lead is at i
Utf8CodePoint(s, i, n) ==
    LET b0 == EscapeByte(s, i)
        c(j) == EscapeByte(s, i + 3 * j) - 128
    IN  IF n = 2 THEN (b0 - 192) * 64 + c(1)
        ELSE IF n = 3 THEN (b0 - 224) * 4096 + c(1) * 64 + c(2)
        ELSE (b0 - 240) * 262144 + c(1) * 4096 + c(2) * 64 + c(3)

\* smallest code point that needs n octets (anything below is overlong)
Utf8Min(n) == IF n = 2 THEN 128 ELSE IF n = 3 THEN 2048 ELSE 65536

\* the UTF-16 code units of a code point
CodeUnits(cp) ==
    IF cp < 65536 THEN <<cp>>
    ELSE <<55296 + ((cp - 65536) \div 1024), 56320 + ((cp - 65536) % 1024)>>

RECURSIVE DecodeURIFrom(_, _)
DecodeURIFrom(s, i) ==
    IF i > Len(s) THEN <<>>
    ELSE IF s[i] # PCT THEN Then(<<s[i]>>, DecodeURIFrom(s, i + 1))
    ELSE IF ~HasEscape(s, i) THEN Thrown
    ELSE LET b == EscapeByte(s, i)
             n == Utf8Len(b)
         IN  IF n = 1 THEN Then(<<b>>, DecodeURIFrom(s, i + 3))
             ELSE IF n = 0 \/ ~HasContinuations(s, i, n) THEN Thrown
             ELSE LET cp == Utf8CodePoint(s, i, n)
                  IN  IF \/ cp < Utf8Min(n)
                         \/ cp \in 55296..57343
                         \/ cp > 1114111
                      THEN Thrown
                      ELSE Then(CodeUnits(cp), DecodeURIFrom(s, i + 3 * n))

DecodeURIComponent(s) == DecodeURIFrom(s, 1)

---------------------------------------------------------------------------
(* QueryString.decode: four replace passes, each over the output of the    *)
(* one before; a pass never rescans what it has just written, and it       *)
(* resumes after the match also when the callback returns the match        *)
(* unchanged.                                                              *)

\* [89AB]
IsContinuationNibble(c) == c \in {56, 57, 65, 66}

\* /%([EF][0-9A-F])%([89AB][0-9A-F])%([89AB][0-9A-F])/ matches at i
Match3(s, i) ==
    /\ i + 8 <= Len(s)
    /\ s[i] = PCT /\ s[i + 1] \in {69, 70} /\ IsUpperHex(s[i + 2])
    /\ s[i + 3] = PCT /\ IsContinuationNibble(s[i + 4]) /\ IsUpperHex(s[i + 5])
    /\ s[i + 6] = PCT /\ IsContinuationNibble(s[i + 7]) /\ IsUpperHex(s[i + 8])

\* the callback of the three-escape pass, for the match at i
Replace3(s, i) ==
    LET code == SubSeq(s, i, i + 8)
        n1 == EscapeByte(s, i) - 224
        n2 == EscapeByte(s, i + 3) - 128
        n3 == EscapeByte(s, i + 6) - 128
        n == n1 * 4096 + n2 * 64 + n3
    IN  IF n1 = 0 /\ n2 < 32 THEN code
        ELSE IF n > 65535 THEN code
        ELSE <<n>>

RECURSIVE DecodePass3(_, _)
DecodePass3(s, i) ==
    IF i > Len(s) THEN <<>>
    ELSE IF Match3(s, i) THEN Replace3(s, i) \o DecodePass3(s, i + 9)
    ELSE <<s[i]>> \o DecodePass3(s, i + 1)

\* /%([CD][0-9A-F])%([89AB][0-9A-F])/ matches at i
Match2(s, i) ==
    /\ i + 5 <= Len(s)
    /\ s[i] = PCT /\ s[i + 1] \in {67, 68} /\ IsUpperHex(s[i + 2])
    /\ s[i + 3] = PCT /\ IsContinuationNibble(s[i + 4]) /\ IsUpperHex(s[i + 5])

\* the callback of the two-escape pass, for the match at i
Replace2(s, i) ==
    LET code == SubSeq(s, i, i + 5)
        n1 == EscapeByte(s, i) - 192
        n2 == EscapeByte(s, i + 3) - 128
    IN  IF n1 < 2 THEN code ELSE <<n1 * 64 + n2>>

RECURSIVE DecodePass2(_, _)
DecodePass2(s, i) ==
    IF i > Len(s) THEN <<>>
    ELSE IF Match2(s, i) THEN Replace2(s, i) \o DecodePass2(s, i + 6)
    ELSE <<s[i]>> \o DecodePass2(s, i + 1)

\* /%([0-7][0-9A-F])/ matches at i
Match1(s, i) ==
    /\ i + 2 <= Len(s)
    /\ s[i] = PCT /\ s[i + 1] \in 48..55 /\ IsUpperHex(s[i + 2])

RECURSIVE DecodePass1(_, _)
DecodePass1(s, i) ==
    IF i > Len(s) THEN <<>>
    ELSE IF Match1(s, i) THEN <<EscapeByte(s, i)>> \o DecodePass1(s, i + 3)
    ELSE <<s[i]>> \o DecodePass1(s, i + 1)

decode(s) ==
    LET s1 == PlusToSpace(s)
        s2 == DecodePass3(s1, 1)
        s3 == DecodePass2(s2, 1)
    IN  DecodePass1(s3, 1)

---------------------------------------------------------------------------
(* QueryString.encode: encodeURIComponent, then "%20" -> "+".              *)

\* A-Z a-z 0-9 - _ . ! ~ * ' ( )
IsUnreserved(c) ==
    \/ c \in 65..90 \/ c \in 97..122 \/ c \in 48..57
    \/ c \in {45, 95, 46, 33, 126, 42, 39, 40, 41}

\* the escapes of the UTF-8 octets of a code point
Utf8Escapes(cp) ==
    IF cp < 128 THEN Escape(cp)
    ELSE IF cp < 2048 THEN
        Escape(192 + (cp \div 64)) \o Escape(128 + (cp % 64))
    ELSE IF cp < 65536 THEN
        Escape(224 + (cp \div 4096)) \o Escape(128 + ((cp \div 64) % 64))
            \o Escape(128 + (cp % 64))
    ELSE
        Escape(240 + (cp \div 262144)) \o Escape(128 + ((cp \div 4096) % 64))
            \o Escape(128 + ((cp \div 64) % 64)) \o Escape(128 + (cp % 64))

\* encodeURIComponent: URIError on a surrogate that is not half of a pair
RECURSIVE EncodeURIFrom(_, _)
EncodeURIFrom(s, i) ==
    IF i > Len(s) THEN <<>>
    ELSE IF IsUnreserved(s[i]) THEN Then(<<s[i]>>, EncodeURIFrom(s, i + 1))
    ELSE IF s[i] \in 56320..57343 THEN Thrown
    ELSE IF s[i] \in 55296..56319 THEN
        IF i + 1 <= Len(s) /\ s[i + 1] \in 56320..57343
        THEN Then(Utf8Escapes(65536 + (s[i] - 55296) * 1024 + (s[i + 1] - 56320)),
                  EncodeURIFrom(s, i + 2))
        ELSE Thrown
    ELSE Then(Utf8Escapes(s[i]), EncodeURIFrom(s, i + 1))

\* the argument converted to a string, as a built-in does with null / undefined
ToStr(v) ==
    IF v = NULL THEN Str_null ELSE IF v = UNDEFINED THEN Str_undefined ELSE v

EncodeURIComponent(v) == EncodeURIFrom(ToStr(v), 1)

\* s.replace(/%20/g, '+')
RECURSIVE SpaceToPlus(_, _)
SpaceToPlus(s, i) ==
    IF i > Len(s) THEN <<>>
    ELSE IF i + 2 <= Len(s) /\ s[i] = PCT /\ s[i + 1] = 50 /\ s[i + 2] = 48
         THEN <<PLUS>> \o SpaceToPlus(s, i + 3)
    ELSE <<s[i]>> \o SpaceToPlus(s, i + 1)

encode(v) ==
    LET e == EncodeURIComponent(v)
    IN  IF e = Thrown THEN Thrown ELSE SpaceToPlus(e, 1)

---------------------------------------------------------------------------
(* The constructor's tokeniser: the global regular expression of line 73   *)
(* (a maximal run of characters other than '=' and '&'; then, optionally,  *)
(* '=' and a maximal run of characters other than '&'), driven by re.exec  *)
(* from lastIndex until it finds no match.                                 *)

\* first index >= p of a character outside `stop`; Len(s) + 1 when none
RECURSIVE SkipTo(_, _, _)
SkipTo(s, p, stop) ==
    IF p > Len(s) \/ s[p] \notin stop THEN p ELSE SkipTo(s, p + 1, stop)

\* first index >= p of a character in `stop`; Len(s) + 1 when none
RECURSIVE RunEnd(_, _, _)
RunEnd(s, p, stop) ==
    IF p > Len(s) \/ s[p] \in stop THEN p ELSE RunEnd(s, p + 1, stop)

\* the matches from lastIndex p on, as [key_enc, val_enc]; val_enc is NULL
\* when group 3 did not take part (match[3] === undefined)
RECURSIVE Matches(_, _)
Matches(qs, p) ==
    LET ks == SkipTo(qs, p, {EQ, AMP})
    IN  IF ks > Len(qs) THEN <<>>
        ELSE LET ke == RunEnd(qs, ks, {EQ, AMP})
                 hasVal == ke <= Len(qs) /\ qs[ke] = EQ
                 ve == IF hasVal THEN RunEnd(qs, ke + 1, {AMP}) ELSE ke
             IN  << [key_enc |-> SubSeq(qs, ks, ke - 1),
                     val_enc |-> IF hasVal THEN SubSeq(qs, ke + 1, ve - 1)
                                 ELSE NULL] >>
                 \o Matches(qs, ve)

---------------------------------------------------------------------------
(* dict: a JavaScript object used as a dictionary.  It is modelled as the  *)
(* sequence of its own properties in enumeration order, each holding a     *)
(* reference (an index of heap) to its array of values.                    *)

HasOwn(d, k) == \E i \in 1..Len(d) : d[i].k = k

\* the reference dict[k] holds, for an own property k
Ref(d, k) == d[CHOOSE i \in 1..Len(d) : d[i].k = k].ref

IsDigits(k) == \A i \in 1..Len(k) : k[i] \in 48..57

\* a < b for canonical decimal numerals
RECURSIVE LexLess(_, _, _)
LexLess(a, b, i) ==
    IF i > Len(a) THEN FALSE
    ELSE IF a[i] # b[i] THEN a[i] < b[i]
    ELSE LexLess(a, b, i + 1)

NumLess(a, b) == Len(a) < Len(b) \/ (Len(a) = Len(b) /\ LexLess(a, b, 1))

\* 2^32 - 2, the largest array index
Str_maxIndex == <<52, 50, 57, 52, 57, 54, 55, 50, 57, 52>>

\* an integer-like key: an object enumerates these first, in numeric order
IsArrayIndex(k) ==
    /\ Len(k) > 0
    /\ IsDigits(k)
    /\ (k[1] = 48 => Len(k) = 1)
    /\ ~NumLess(Str_maxIndex, k)

\* d[k] = (the array at ref), for a k that is no own property of d.  An
\* assignment to __proto__ replaces the object's prototype and creates no
\* own property.
SetNew(d, k, ref) ==
    IF k = Str_proto THEN d
    ELSE IF IsArrayIndex(k) THEN
        LET n == Cardinality({i \in 1..Len(d) :
                     IsArrayIndex(d[i].k) /\ NumLess(d[i].k, k)})
        IN  SubSeq(d, 1, n) \o <<[k |-> k, ref |-> ref]>> \o SubSeq(d, n + 1, Len(d))
    ELSE Append(d, [k |-> k, ref |-> ref])

\* d.hasOwnProperty is not the inherited method but an array stored under
\* that key: calling it raises TypeError
ShadowsHasOwnProperty(d) == HasOwn(d, Str_hasOwnProperty)

---------------------------------------------------------------------------
(* The constructor.  st is the object under construction together with the *)
(* heap: [heap, dict, alist, threw].                                       *)

RECURSIVE CtorLoop(_, _, _)
CtorLoop(st, ms, i) ==
    IF i > Len(ms) THEN st
    ELSE
        LET key_enc == ms[i].key_enc
            val_enc == ms[i].val_enc
            key_dec == DecodeURIComponent(PlusToSpace(key_enc))
            val_dec == IF val_enc = NULL THEN NULL ELSE decode(val_enc)
            pair == [key_enc |-> key_enc, key_dec |-> key_dec,
                     val_enc |-> val_enc, val_dec |-> val_dec]
        IN  IF key_dec = Thrown THEN [st EXCEPT !.threw = TRUE]
            ELSE IF HasOwn(st.dict, key_dec) THEN
                CtorLoop([st EXCEPT
                            !.heap[Ref(st.dict, key_dec)] = Append(@, val_dec),
                            !.alist = Append(@, pair)], ms, i + 1)
            ELSE IF key_dec \in ObjectPrototypeNames THEN
                \* this.dict[key_dec] is an inherited, truthy value without push
                [st EXCEPT !.threw = TRUE]
            ELSE
                CtorLoop([st EXCEPT
                            !.heap = Append(@, <<val_dec>>),
                            !.dict = SetNew(@, key_dec, Len(st.heap) + 1),
                            !.alist = Append(@, pair)], ms, i + 1)

QueryString(h, qs) ==
    LET q == IF Len(qs) > 0 /\ qs[1] = QMARK THEN Tail(qs) ELSE qs
    IN  CtorLoop([heap |-> h, dict |-> <<>>, alist |-> <<>>, threw |-> FALSE],
                 Matches(q, 1), 1)

---------------------------------------------------------------------------
(* Static helpers and the callbacks handed to them.  A callback returns    *)
(* [heap, replace]: the heap after the arrays it created, and the          *)
(* reference it returns, 0 for undefined.                                  *)

\* the elements of an array
Elements(arr) == { arr[i] : i \in 1..Len(arr) }

\* fe is the filtering function, as a function on the elements of arr
filter(arr, fe) == SelectSeq(arr, LAMBDA x : fe[x])

\* (mutant) the key's array is pushed onto in place, without ovs.slice()
PlusHasCallback_InPlace(h, ok, ovs, k, v) ==
    IF ok # k THEN [heap |-> h, replace |-> ovs]
    ELSE [heap |-> [h EXCEPT ![ovs] = Append(@, v)], replace |-> ovs]

\* plus, key present: the callback of lines 215-220
PlusHasCallback(h, ok, ovs, k, v) ==
    IF ok # k THEN [heap |-> h, replace |-> ovs]
    ELSE [heap |-> Append(h, Append(h[ovs], v)), replace |-> Len(h) + 1]

\* plus, key absent: the callback of lines 222-224
PlusNewCallback(h, ok, vs) == [heap |-> h, replace |-> vs]

\* minus: the callback of lines 244-251
MinusCallback(h, ok, ovs, k, v, checkVals) ==
    IF checkVals THEN
        LET vs == filter(h[ovs], [el \in Elements(h[ovs]) |-> el # v])
        IN  IF Len(vs) = 0 THEN [heap |-> h, replace |-> 0]
            ELSE [heap |-> Append(h, vs), replace |-> Len(h) + 1]
    ELSE IF ok = k THEN [heap |-> h, replace |-> 0]
    ELSE [heap |-> h, replace |-> ovs]

\* fkv(k, d[k]) for the callback that cb names
Call(cb, h, ok, ovs) ==
    IF cb.fn = "plusHas" THEN PlusHasCallback(h, ok, ovs, cb.k, cb.v)
    ELSE IF cb.fn = "plusNew" THEN PlusNewCallback(h, ok, ovs)
    ELSE MinusCallback(h, ok, ovs, cb.k, cb.v, cb.checkVals)

RECURSIVE mapDictLoop(_, _, _, _, _)
mapDictLoop(h, d, cb, i, ret) ==
    IF i > Len(d) THEN [heap |-> h, dict |-> ret, threw |-> FALSE]
    ELSE LET r == Call(cb, h, d[i].k, d[i].ref)
         IN  mapDictLoop(r.heap, d, cb, i + 1,
                 IF r.replace # 0 THEN SetNew(ret, d[i].k, r.replace) ELSE ret)

mapDict(h, d, cb) ==
    IF ShadowsHasOwnProperty(d)
    THEN [heap |-> h, dict |-> <<>>, threw |-> TRUE]
    ELSE mapDictLoop(h, d, cb, 1, <<>>)

---------------------------------------------------------------------------
(* Instance methods.  o is an instance [dict, alist]; h is the heap.       *)

\* (mutant) the first value of the key, not the last
value_First(h, o, key) ==
    IF ShadowsHasOwnProperty(o.dict) THEN Thrown
    ELSE IF ~HasOwn(o.dict, key) THEN UNDEFINED
    ELSE LET vs == h[Ref(o.dict, key)]
         IN  IF Len(vs) = 0 THEN UNDEFINED ELSE vs[1]

value(h, o, key) ==
    IF ShadowsHasOwnProperty(o.dict) THEN Thrown
    ELSE IF ~HasOwn(o.dict, key) THEN UNDEFINED
    ELSE LET vs == h[Ref(o.dict, key)]
         IN  IF Len(vs) = 0 THEN UNDEFINED ELSE vs[Len(vs)]

values(h, o, key) ==
    IF ShadowsHasOwnProperty(o.dict) THEN <<Thrown>>
    ELSE IF HasOwn(o.dict, key) THEN h[Ref(o.dict, key)]
    ELSE <<>>

keys(o) ==
    IF ShadowsHasOwnProperty(o.dict) THEN <<Thrown>>
    ELSE [i \in 1..Len(o.dict) |-> o.dict[i].k]

\* the outcome of a method that returns a new instance
Raised == [heap |-> <<>>, qs |-> [dict |-> <<>>, alist |-> <<>>], threw |-> TRUE]

plus(h, loc, this, k, v) ==
    LET retQS == QueryString(h, loc)
        key_enc == encode(k)
        val_enc == encode(v)
        m == mapDict(h, this.dict,
                 IF HasOwn(this.dict, k)
                 THEN [fn |-> "plusHas", k |-> k, v |-> v, checkVals |-> FALSE]
                 ELSE [fn |-> "plusNew", k |-> k, v |-> v, checkVals |-> FALSE])
        pair == [key_enc |-> key_enc, key_dec |-> k,
                 val_enc |-> val_enc, val_dec |-> v]
    IN  IF retQS.threw \/ m.threw \/ key_enc = Thrown \/ val_enc = Thrown
        THEN Raised
        ELSE IF HasOwn(this.dict, k) THEN
            [heap |-> m.heap,
             qs |-> [dict |-> m.dict, alist |-> Append(this.alist, pair)],
             threw |-> FALSE]
        ELSE
            [heap |-> Append(m.heap, <<v>>),
             qs |-> [dict |-> SetNew(m.dict, k, Len(m.heap) + 1),
                     alist |-> Append(this.alist, pair)],
             threw |-> FALSE]

minus(h, loc, this, k, v, checkVals) ==
    LET retQS == QueryString(h, loc)
        m == mapDict(h, this.dict,
                 [fn |-> "minus", k |-> k, v |-> v, checkVals |-> checkVals])
    IN  IF retQS.threw \/ m.threw THEN Raised
        ELSE
            [heap |-> m.heap,
             qs |-> [dict |-> m.dict,
                     alist |-> filter(this.alist,
                         [pair \in Elements(this.alist) |->
                             LET matches == pair.key_dec = k
                                            /\ (~checkVals \/ pair.val_dec = v)
                             IN  ~matches])],
             threw |-> FALSE]

\* (mutant) the pairs are written from their decoded forms, encoded anew
RECURSIVE toStringLoop_Reencode(_, _)
toStringLoop_Reencode(al, i) ==
    IF i > Len(al) THEN <<>>
    ELSE <<AMP>> \o encode(al[i].key_dec)
         \o (IF al[i].val_enc # NULL THEN <<EQ>> \o encode(al[i].val_dec) ELSE <<>>)
         \o toStringLoop_Reencode(al, i + 1)

\* (mutant) '=' and the value are written without the test for null
RECURSIVE toStringLoop_NoNullCheck(_, _)
toStringLoop_NoNullCheck(al, i) ==
    IF i > Len(al) THEN <<>>
    ELSE <<AMP>> \o al[i].key_enc \o <<EQ>> \o ToStr(al[i].val_enc)
         \o toStringLoop_NoNullCheck(al, i + 1)

RECURSIVE toStringLoop(_, _)
toStringLoop(al, i) ==
    IF i > Len(al) THEN <<>>
    ELSE <<AMP>> \o al[i].key_enc
         \o (IF al[i].val_enc # NULL THEN <<EQ>> \o al[i].val_enc ELSE <<>>)
         \o toStringLoop(al, i + 1)

toString(o) ==
    LET al == o.alist
    IN  IF Len(al) = 0 THEN <<>>
        ELSE <<QMARK>> \o Tail(toStringLoop(al, 1))

---------------------------------------------------------------------------
(* Inputs.                                                                 *)

\* longest text enumerated exhaustively
MaxLen == 4

\* most instances alive in one behaviour
MaxObjs == 3

\* ? & = a + % 4 1
Alphabet == {QMARK, AMP, EQ, 97, PLUS, PCT, 52, 49}

\* ""
T_empty == <<>>
\* "??a=b&foo=bar&with+space=also%20space&foo=baz&mult=iple=equals&blank=&missing&&&"
T_header ==
    <<63, 63, 97, 61, 98, 38, 102, 111, 111, 61, 98, 97, 114, 38, 119, 105,
      116, 104, 43, 115, 112, 97, 99, 101, 61, 97, 108, 115, 111, 37, 50, 48,
      115, 112, 97, 99, 101, 38, 102, 111, 111, 61, 98, 97, 122, 38, 109, 117,
      108, 116, 61, 105, 112, 108, 101, 61, 101, 113, 117, 97, 108, 115, 38,
      98, 108, 97, 110, 107, 61, 38, 109, 105, 115, 115, 105, 110, 103, 38,
      38, 38>>
\* "?format=html&%3Da%3D=%E2%84%A0"
T_readme ==
    <<63, 102, 111, 114, 109, 97, 116, 61, 104, 116, 109, 108, 38, 37, 51, 68,
      97, 37, 51, 68, 61, 37, 69, 50, 37, 56, 52, 37, 65, 48>>
\* "?a=1&b=1"
T_shared == <<63, 97, 61, 49, 38, 98, 61, 49>>
\* "?a=1&a=&b=&a"
T_repeat == <<63, 97, 61, 49, 38, 97, 61, 38, 98, 61, 38, 97>>
\* "?%41=%2541&a+=%e2%84%a0"
T_escapes ==
    <<63, 37, 52, 49, 61, 37, 50, 53, 52, 49, 38, 97, 43, 61, 37, 101, 50, 37,
      56, 52, 37, 97, 48>>
\* "?%zz=1"
T_badKey == <<63, 37, 122, 122, 61, 49>>
\* "?%80"
T_lone == <<63, 37, 56, 48>>
\* "?constructor=1"
T_inherited == <<63, 99, 111, 110, 115, 116, 114, 117, 99, 116, 111, 114, 61, 49>>
\* "?a=1&__proto__=x"
T_proto == <<63, 97, 61, 49, 38, 95, 95, 112, 114, 111, 116, 111, 95, 95, 61, 120>>

Samples ==
    { T_empty, T_header, T_readme, T_shared, T_repeat, T_escapes,
      T_badKey, T_lone, T_inherited, T_proto }

\* the texts handed to the constructor when parsing alone is examined
Texts == UNION { [1..n -> Alphabet] : n \in 0..MaxLen } \cup Samples

\* the texts the instances that plus and minus work on start from
Roots == { T_empty, T_shared, T_repeat, T_escapes, T_badKey, T_inherited }

\* location.search of the page: empty, or "?%"
Locations == { <<>>, <<QMARK, PCT>> }

\* a  b  __proto__  hasOwnProperty
Keys == { <<97>>, <<98>>, Str_proto, Str_hasOwnProperty }

\* "1"  ""  null
Values == { <<49>>, <<>>, NULL }

---------------------------------------------------------------------------
(* The state machine: one action per call that creates an instance.  The   *)
(* lookups and toString change nothing and are the operators above.  A     *)
(* call that raises ends the script: nothing is called after it.           *)

NoCall ==
    [op |-> "none", src |-> 0, k |-> <<>>, v |-> <<>>, argc |-> 0,
     text |-> <<>>, threw |-> FALSE]

Init ==
    /\ location \in Locations
    /\ heap = <<>>
    /\ objs = <<>>
    /\ last = NoCall

InitParse ==
    /\ location = <<>>
    /\ heap = <<>>
    /\ objs = <<>>
    /\ last = NoCall

\* the state after a call whose outcome is r
Outcome(r, call) ==
    /\ last' = [call EXCEPT !.threw = r.threw]
    /\ IF r.threw
       THEN UNCHANGED <<heap, objs>>
       ELSE /\ heap' = r.heap
            /\ objs' = Append(objs, r.qs)
    /\ UNCHANGED location

\* new QueryString(t)
New(t) ==
    /\ LET st == QueryString(heap, t)
       IN  Outcome([heap |-> st.heap,
                    qs |-> [dict |-> st.dict, alist |-> st.alist],
                    threw |-> st.threw],
                   [NoCall EXCEPT !.op = "new", !.argc = 1, !.text = t])

\* new QueryString(objs[i].toString())
Reparse(i) ==
    /\ ~last.threw
    /\ i \in 1..Len(objs)
    /\ Len(objs) < MaxObjs
    /\ LET t == toString(objs[i])
           st == QueryString(heap, t)
       IN  Outcome([heap |-> st.heap,
                    qs |-> [dict |-> st.dict, alist |-> st.alist],
                    threw |-> st.threw],
                   [NoCall EXCEPT !.op = "new", !.src = i, !.argc = 1, !.text = t])

\* objs[i].plus(k, v)
Plus(i, k, v) ==
    /\ ~last.threw
    /\ i \in 1..Len(objs)
    /\ Len(objs) < MaxObjs
    /\ Outcome(plus(heap, location, objs[i], k, v),
               [NoCall EXCEPT !.op = "plus", !.src = i, !.k = k, !.v = v, !.argc = 2])

\* objs[i].minus(k)
Minus1(i, k) ==
    /\ ~last.threw
    /\ i \in 1..Len(objs)
    /\ Len(objs) < MaxObjs
    /\ Outcome(minus(heap, location, objs[i], k, UNDEFINED, FALSE),
               [NoCall EXCEPT !.op = "minus", !.src = i, !.k = k, !.v = UNDEFINED,
                              !.argc = 1])

\* objs[i].minus(k, v)
Minus2(i, k, v) ==
    /\ ~last.threw
    /\ i \in 1..Len(objs)
    /\ Len(objs) < MaxObjs
    /\ Outcome(minus(heap, location, objs[i], k, v, TRUE),
               [NoCall EXCEPT !.op = "minus", !.src = i, !.k = k, !.v = v, !.argc = 2])

\* Every behaviour starts with one call of the constructor on a text.
Next ==
    \/ last = NoCall /\ \E t \in Roots : New(t)
    \/ \E i \in 1..MaxObjs, k \in Keys, v \in Values : Plus(i, k, v)
    \/ \E i \in 1..MaxObjs, k \in Keys : Minus1(i, k)
    \/ \E i \in 1..MaxObjs, k \in Keys, v \in Values : Minus2(i, k, v)

Spec == Init /\ [][Next]_vars

NextParse ==
    \/ last = NoCall /\ \E t \in Texts : New(t)
    \/ \E i \in 1..MaxObjs : Reparse(i)

SpecParse == InitParse /\ [][NextParse]_vars

---------------------------------------------------------------------------
(* Vocabulary of the properties.                                           *)

\* the instance the last call returned, and the one it was called on
Result == objs[Len(objs)]
Source == objs[last.src]

PairKeys(o) == { o.alist[i].key_dec : i \in 1..Len(o.alist) }
OwnKeys(o) == { o.dict[i].k : i \in 1..Len(o.dict) }

\* the keys looked up in an instance: those it holds and some it may not
Lookups(o) == PairKeys(o) \cup OwnKeys(o) \cup Keys \cup {Str_constructor, <<>>}

\* the pairs of al whose decoded key is k
PairsOf(al, k) == SelectSeq(al, LAMBDA pair : pair.key_dec = k)

\* the decoded values of the pairs of al with decoded key k, in pair order
ValuesOf(al, k) ==
    LET ps == PairsOf(al, k) IN [i \in 1..Len(ps) |-> ps[i].val_dec]

\* dict is the projection of alist, for the instance o
IsProjection(h, o) ==
    \A k \in Lookups(o) :
        /\ HasOwn(o.dict, k) <=> k \in PairKeys(o)
        /\ HasOwn(o.dict, k) => h[Ref(o.dict, k)] = ValuesOf(o.alist, k)

\* everything a caller can read from the instance o
Observe(h, o) ==
    [str |-> toString(o),
     keys |-> keys(o),
     value |-> [k \in Lookups(o) |-> value(h, o, k)],
     values |-> [k \in Lookups(o) |-> values(h, o, k)]]

---------------------------------------------------------------------------
\* C1: in every instance reachable by the constructor followed by plus and
\* minus calls, dict is exactly the projection of alist: a key has an entry
\* iff some pair has that decoded key, and the entry is the sequence of the
\* decoded values of those pairs in pair order.  (Instances holding a pair
\* whose key is __proto__ are left aside here; they fail it too, see C9.)
C1_DictIsProjection ==
    \A i \in 1..Len(objs) :
        Str_proto \notin PairKeys(objs[i]) => IsProjection(heap, objs[i])

\* C2: no call changes what can be read from an instance that exists
\* already: toString(), keys(), value(k) and values(k) of every instance
\* are the same after a step as before it.
C2_Immutable ==
    [][\A i \in 1..Len(objs) : Observe(heap', objs'[i]) = Observe(heap, objs[i])]_vars

\* C2 witness: the third instance came from plus on a key its source
\* holds, and shares another key's array with its source.
C2_Witness ==
    /\ Len(objs) = 3
    /\ last.op = "plus" /\ ~last.threw
    /\ HasOwn(Source.dict, last.k)
    /\ \E k2 \in OwnKeys(Source) \ {last.k} :
           /\ HasOwn(Result.dict, k2)
           /\ Ref(Result.dict, k2) = Ref(Source.dict, k2)

---------------------------------------------------------------------------
\* the text C6 describes: a pair shows '=' and its encoded value iff its
\* value is not the absent marker
RECURSIVE RenderPairs(_, _)
RenderPairs(al, i) ==
    IF i > Len(al) THEN <<>>
    ELSE (IF i > 1 THEN <<AMP>> ELSE <<>>)
         \o al[i].key_enc
         \o (IF al[i].val_dec # NULL THEN <<EQ>> \o al[i].val_enc ELSE <<>>)
         \o RenderPairs(al, i + 1)

Rendered(al) == IF Len(al) = 0 THEN <<>> ELSE <<QMARK>> \o RenderPairs(al, 1)

\* C6: toString() is "" for an instance without pairs, and otherwise '?'
\* and the pairs joined by '&', each its encoded key followed by '=' and
\* its encoded value iff the pair's value is not the absent marker; this
\* for pairs from the constructor and for pairs added by plus alike.
C6_ToStringRendersAbsent ==
    \A i \in 1..Len(objs) : toString(objs[i]) = Rendered(objs[i].alist)

\* C7: no call raises: the constructor, plus and minus return an instance
\* for every input, and value, values and keys return on every instance.
C7_NothingRaises ==
    /\ ~last.threw
    /\ \A i \in 1..Len(objs) :
           /\ keys(objs[i]) # <<Thrown>>
           /\ \A k \in Lookups(objs[i]) :
                  /\ value(heap, objs[i], k) # Thrown
                  /\ values(heap, objs[i], k) # <<Thrown>>

\* C9: r = q.plus(k, v) has q's pairs followed by one new pair (k, v) with
\* the encoded forms encode(k) and encode(v); r.values(k) is q.values(k)
\* with v appended, r.value(k) is v, and r.values(k2) is q.values(k2) for
\* every other key k2.  (Stated for the calls that returned an instance
\* whose lookups return: the ones that raise are C7's.)
C9_PlusAppends ==
    (/\ last.op = "plus" /\ ~last.threw
     /\ ~ShadowsHasOwnProperty(Source.dict)
     /\ ~ShadowsHasOwnProperty(Result.dict))
    => /\ Result.alist =
              Append(Source.alist,
                     [key_enc |-> encode(last.k), key_dec |-> last.k,
                      val_enc |-> encode(last.v), val_dec |-> last.v])
       /\ values(heap, Result, last.k)
              = Append(values(heap, Source, last.k), last.v)
       /\ value(heap, Result, last.k) = last.v
       /\ \A k2 \in (Lookups(Source) \cup Lookups(Result)) \ {last.k} :
              values(heap, Result, k2) = values(heap, Source, k2)

\* C10: r = q.minus(k, v) deletes exactly the pairs with decoded key k and
\* decoded value v and keeps the others in order; r.values(k) is
\* q.values(k) without v; for every other key k2 the values, the value and
\* the membership in keys() are q's; and no key keeps an empty value list.
\* (Stated for the calls that returned, on instances whose lookups return.)
C10_MinusValueFrame ==
    (/\ last.op = "minus" /\ last.argc = 2 /\ ~last.threw
     /\ Str_proto \notin PairKeys(Source))
    => /\ Result.alist =
              SelectSeq(Source.alist, LAMBDA pair :
                  ~(pair.key_dec = last.k /\ pair.val_dec = last.v))
       /\ values(heap, Result, last.k)
              = SelectSeq(values(heap, Source, last.k), LAMBDA el : el # last.v)
       /\ \A k2 \in (Lookups(Source) \cup Lookups(Result)) \ {last.k} :
              /\ values(heap, Result, k2) = values(heap, Source, k2)
              /\ value(heap, Result, k2) = value(heap, Source, k2)
              /\ (k2 \in OwnKeys(Result)) <=> (k2 \in OwnKeys(Source))
       /\ \A k2 \in OwnKeys(Result) : Len(heap[Ref(Result.dict, k2)]) > 0

---------------------------------------------------------------------------
(* Vocabulary of the properties on parsing: a text as its '&'-separated    *)
(* segments.                                                               *)

StartsWithQMark(t) == Len(t) > 0 /\ t[1] = QMARK

\* t without one leading '?'
Stripped(t) == IF StartsWithQMark(t) THEN Tail(t) ELSE t

\* the segments of s between its '&' separators, empty ones included
RECURSIVE Segments(_, _, _)
Segments(s, i, cur) ==
    IF i > Len(s) THEN <<cur>>
    ELSE IF s[i] = AMP THEN <<cur>> \o Segments(s, i + 1, <<>>)
    ELSE Segments(s, i + 1, Append(cur, s[i]))

\* the pair a segment 'K=V' or 'K' stands for
SegmentPair(seg) ==
    IF \E i \in 1..Len(seg) : seg[i] = EQ THEN
        LET e == CHOOSE i \in 1..Len(seg) :
                     seg[i] = EQ /\ \A j \in 1..(i - 1) : seg[j] # EQ
        IN  [key_enc |-> SubSeq(seg, 1, e - 1),
             val_enc |-> SubSeq(seg, e + 1, Len(seg))]
    ELSE [key_enc |-> seg, val_enc |-> NULL]

\* the pairs of the non-empty segments of t, left to right
ExpectedPairs(t) ==
    LET segs == SelectSeq(Segments(Stripped(t), 1, <<>>), LAMBDA g : Len(g) > 0)
    IN  [i \in 1..Len(segs) |-> SegmentPair(segs[i])]

\* no segment of t has an empty key before its '='
KeysNonEmpty(t) ==
    LET segs == Segments(Stripped(t), 1, <<>>)
    IN  \A i \in 1..Len(segs) : Len(segs[i]) > 0 => segs[i][1] # EQ

\* s is one or more segments joined by single '&', each non-empty and not
\* beginning with '='
Canonical(s) ==
    LET segs == Segments(s, 1, <<>>)
    IN  /\ Len(s) > 0
        /\ \A i \in 1..Len(segs) : Len(segs[i]) > 0 /\ segs[i][1] # EQ

\* the encoded forms of the pairs of al
EncPairs(al) ==
    [i \in 1..Len(al) |-> [key_enc |-> al[i].key_enc, val_enc |-> al[i].val_enc]]

---------------------------------------------------------------------------
\* C3: the constructor strips at most one leading '?' and produces, left to
\* right, one pair for every non-empty segment: 'K=V' gives encoded key K
\* and encoded value V (everything after the first '=', possibly empty),
\* 'K' without '=' gives the value null; empty segments give nothing.
C3_ParsePairs ==
    (last.op = "new" /\ last.src = 0 /\ KeysNonEmpty(last.text))
    => /\ ~last.threw
       /\ EncPairs(Result.alist) = ExpectedPairs(last.text)

\* The pairs are those of C3 whenever the constructor returns: C3 fails on
\* the texts it raises on, and on no other.
PairsWhenReturned ==
    (last.op = "new" /\ last.src = 0 /\ KeysNonEmpty(last.text) /\ ~last.threw)
    => EncPairs(Result.alist) = ExpectedPairs(last.text)

C5_ReparseIdempotent ==
    (last.op = "new" /\ last.src # 0)
    => /\ ~last.threw
       /\ toString(Result) = toString(Source)
       /\ EncPairs(Result.alist) = EncPairs(Source.alist)

\* C5 witness: an instance with an absent and a present value has been
\* serialised and parsed again.
C5_Witness ==
    /\ last.op = "new" /\ last.src # 0 /\ ~last.threw
    /\ \E i, j \in 1..Len(Source.alist) :
           /\ Source.alist[i].val_enc = NULL
           /\ Source.alist[j].val_enc # NULL

\* C8: for q = parse(t) and every key k, values(k) is the sequence of the
\* decoded values of the pairs with decoded key k in order (empty if there
\* is none) and value(k) is its last element; value(k) is undefined iff k
\* never appeared, null iff the last occurrence of k had no '=', and the
\* empty string when the last occurrence was 'k='.
C8_Lookups ==
    \A n \in 1..Len(objs) : \A k \in Lookups(objs[n]) :
        LET o == objs[n]
            ps == PairsOf(o.alist, k)
            vs == values(heap, o, k)
        IN  /\ vs = ValuesOf(o.alist, k)
            /\ value(heap, o, k) = IF Len(vs) = 0 THEN UNDEFINED ELSE vs[Len(vs)]
            /\ value(heap, o, k) = UNDEFINED <=> Len(ps) = 0
            /\ value(heap, o, k) = NULL
                   <=> (Len(ps) > 0 /\ ps[Len(ps)].val_enc = NULL)
            /\ (Len(ps) > 0 /\ ps[Len(ps)].val_enc = <<>>)
                   => value(heap, o, k) = <<>>

\* C8 witness: a parsed instance in which one key has several values, the
\* last of them null, and another key's last value is the empty string.
C8_Witness ==
    \E n \in 1..Len(objs) : \E k1, k2 \in PairKeys(objs[n]) :
        /\ Len(values(heap, objs[n], k1)) >= 2
        /\ value(heap, objs[n], k1) = NULL
        /\ value(heap, objs[n], k1) # values(heap, objs[n], k1)[1]
        /\ value(heap, objs[n], k2) = <<>>
        /\ value(heap, objs[n], Str_constructor) = UNDEFINED

---------------------------------------------------------------------------
\* what C11 says of r = q.minus(k), for a call that returned
MinusKeyEffect ==
    /\ Result.alist = SelectSeq(Source.alist, LAMBDA pair : pair.key_dec # last.k)
    /\ values(heap, Result, last.k) = <<>>
    /\ value(heap, Result, last.k) = UNDEFINED
    /\ last.k \notin Elements(keys(Result))
    /\ \A k2 \in (Lookups(Source) \cup Lookups(Result)) \ {last.k} :
           /\ values(heap, Result, k2) = values(heap, Source, k2)
           /\ value(heap, Result, k2) = value(heap, Source, k2)
           /\ (k2 \in Elements(keys(Result))) <=> (k2 \in Elements(keys(Source)))
    /\ last.k \notin PairKeys(Source)
           => /\ Result.alist = Source.alist
              /\ Observe(heap, Result) = Observe(heap, Source)

\* C11: for every instance q and key k, r = q.minus(k) is an instance
\* without any pair whose decoded key is k, whatever its value: r.values(k)
\* is [], r.value(k) is undefined, k is not in r.keys(), r's pairs are q's
\* pairs with another decoded key in their order, the lookups of every
\* other key are q's, and r has q's pairs and lookups when k is not in q.
C11_MinusKey ==
    (last.op = "minus" /\ last.argc = 1)
    => (~last.threw /\ MinusKeyEffect)

\* The effect is the one of C11 whenever minus(k) returns: C11 fails on the
\* calls that raise, and on no other.
MinusKeyWhenReturned ==
    (last.op = "minus" /\ last.argc = 1 /\ ~last.threw) => MinusKeyEffect

\* minus(k) has returned after removing several pairs of k with different
\* values, one of them absent, and keeping a pair of another key
MinusKeyReturned ==
    /\ last.op = "minus" /\ last.argc = 1 /\ ~last.threw
    /\ Len(Source.alist) >= Len(Result.alist) + 3
    /\ \E i \in 1..Len(Source.alist) :
           Source.alist[i].key_dec = last.k /\ Source.alist[i].val_dec = NULL
    /\ Len(Result.alist) > 0

---------------------------------------------------------------------------
(* QueryString.decode on its own: one call of decode on a text built from  *)
(* a few pieces, each an escape or a single character.                     *)

\* most pieces in a text handed to decode
MaxPieces == 3

\* %E0 %E2 %ED %F0 %C1 %C3 %80 %A0 %BF %41 %2B %25, the lower-case escapes
\* %2b %e2 %a0, and the characters + % 4 1 z
Pieces ==
    { <<PCT, 69, 48>>, <<PCT, 69, 50>>, <<PCT, 69, 68>>, <<PCT, 70, 48>>,
      <<PCT, 67, 49>>, <<PCT, 67, 51>>,
      <<PCT, 56, 48>>, <<PCT, 65, 48>>, <<PCT, 66, 70>>,
      <<PCT, 52, 49>>, <<PCT, 50, 66>>, <<PCT, 50, 53>>,
      <<PCT, 50, 98>>, <<PCT, 101, 50>>, <<PCT, 97, 48>>,
      <<PLUS>>, <<PCT>>, <<52>>, <<49>>, <<122>> }

\* the pieces of ps one after the other
RECURSIVE Flatten(_)
Flatten(ps) == IF Len(ps) = 0 THEN <<>> ELSE Head(ps) \o Flatten(Tail(ps))

\* the texts handed to decode
DecodeTexts == { Flatten(ps) : ps \in UNION { [1..n -> Pieces] : n \in 0..MaxPieces } }

\* QueryString.decode(s)
Decode(s) ==
    /\ last' = [op |-> "decode", src |-> 0, k |-> <<>>, v |-> <<>>, argc |-> 1,
                text |-> s, threw |-> FALSE, ret |-> decode(s)]
    /\ UNCHANGED <<location, heap, objs>>

NextDecode == last = NoCall /\ \E s \in DecodeTexts : Decode(s)

SpecDecode == InitParse /\ [][NextDecode]_vars

---------------------------------------------------------------------------
(* Vocabulary of C12: the text the claim describes, by one scan from left  *)
(* to right in which a recognised sequence is replaced and never looked at *)
(* again.  anyCase says whether a-f count as hex digits.                   *)

IsHexDigit(c, anyCase) == IF anyCase THEN IsHex(c) ELSE IsUpperHex(c)

\* an escape '%' hex hex at i
EscapeAt(s, i, anyCase) ==
    /\ i + 2 <= Len(s)
    /\ s[i] = PCT
    /\ IsHexDigit(s[i + 1], anyCase)
    /\ IsHexDigit(s[i + 2], anyCase)

\* an escape of a continuation byte 80-BF at i
ContinuationAt(s, i, anyCase) ==
    EscapeAt(s, i, anyCase) /\ EscapeByte(s, i) \in 128..191

\* a well-formed 3-escape sequence at i: lead E0-EF, two continuations,
\* not overlong (so the code point is in 0800-FFFF)
WellFormed3(s, i, anyCase) ==
    /\ EscapeAt(s, i, anyCase) /\ EscapeByte(s, i) \in 224..239
    /\ ContinuationAt(s, i + 3, anyCase)
    /\ ContinuationAt(s, i + 6, anyCase)
    /\ Utf8CodePoint(s, i, 3) >= 2048

\* a well-formed 2-escape sequence at i: lead C2-DF and one continuation
WellFormed2(s, i, anyCase) ==
    /\ EscapeAt(s, i, anyCase) /\ EscapeByte(s, i) \in 194..223
    /\ ContinuationAt(s, i + 3, anyCase)

\* a single-byte escape 00-7F at i
WellFormed1(s, i, anyCase) ==
    EscapeAt(s, i, anyCase) /\ EscapeByte(s, i) < 128

RECURSIVE DecodedFrom(_, _, _)
DecodedFrom(s, i, anyCase) ==
    IF i > Len(s) THEN <<>>
    ELSE IF s[i] = PLUS THEN <<SPACE>> \o DecodedFrom(s, i + 1, anyCase)
    ELSE IF WellFormed3(s, i, anyCase)
         THEN <<Utf8CodePoint(s, i, 3)>> \o DecodedFrom(s, i + 9, anyCase)
    ELSE IF WellFormed2(s, i, anyCase)
         THEN <<Utf8CodePoint(s, i, 2)>> \o DecodedFrom(s, i + 6, anyCase)
    ELSE IF WellFormed1(s, i, anyCase)
         THEN <<EscapeByte(s, i)>> \o DecodedFrom(s, i + 3, anyCase)
    ELSE <<s[i]>> \o DecodedFrom(s, i + 1, anyCase)

\* s has a hex digit a-f in an escape
HasLowerCaseEscape(s) ==
    \E i \in 1..Len(s) :
        /\ EscapeAt(s, i, TRUE)
        /\ ~EscapeAt(s, i, FALSE)

\* C12: decode(s) returns, for every s, the string in which every '+' is a
\* space, every well-formed 3-escape and 2-escape UTF-8 sequence is the
\* character with the bit-packed code point, every single-byte escape
\* %00-%7F (second digit any hex digit) is its ASCII character, and every
\* other '%' sequence is left as it is; nothing decoded is decoded again.
C12_DecodeTolerant ==
    last.op = "decode"
    => /\ ~last.threw
       /\ last.ret = DecodedFrom(last.text, 1, TRUE)

\* decode(s) is the string of C12 when only 0-9 and A-F count as hex digits:
\* C12 fails on the texts with a-f in an escape, and on no other.
DecodeUpperCaseOnly ==
    last.op = "decode"
    => /\ ~last.threw
       /\ last.ret = DecodedFrom(last.text, 1, FALSE)
       /\ ~HasLowerCaseEscape(last.text)
              => last.ret = DecodedFrom(last.text, 1, TRUE)

\* decode has decoded '%2541' to '%41', which it did not decode again
DecodeReturned ==
    /\ last.op = "decode"
    /\ last.text = <<PCT, 50, 53, 52, 49>>
    /\ last.ret = <<PCT, 52, 49>>

---------------------------------------------------------------------------
(* Building and serialising: an instance is parsed, pairs are added to the *)
(* newest instance by plus, and the newest instance is written by toString *)
(* and parsed again.                                                       *)

\* ""  "=&"  "%+? " and U+2120  U+1F600 (a surrogate pair)  __proto__
BuildKeys ==
    { <<>>, <<EQ, AMP>>, <<PCT, PLUS, QMARK, SPACE, 8480>>,
      <<55357, 56832>>, Str_proto }

\* null  ""  "=&%+? "  U+00E9 U+2120  U+1F600 (a surrogate pair)
BuildValues ==
    { NULL, <<>>, <<EQ, AMP, PCT, PLUS, QMARK, SPACE>>, <<233, 8480>>,
      <<55357, 56832>> }

\* the texts the built instances start from
BuildRoots == { T_empty, T_escapes }

\* new QueryString(q.toString()) for the newest instance q, made by the
\* constructor on a text or by plus
ParseBack ==
    /\ ~last.threw
    /\ last.op = "plus" \/ (last.op = "new" /\ last.src = 0)
    /\ LET i == Len(objs)
           t == toString(objs[i])
           st == QueryString(heap, t)
       IN  Outcome([heap |-> st.heap,
                    qs |-> [dict |-> st.dict, alist |-> st.alist],
                    threw |-> st.threw],
                   [NoCall EXCEPT !.op = "new", !.src = i, !.argc = 1, !.text = t])

NextBuild ==
    \/ last = NoCall /\ \E t \in BuildRoots : New(t)
    \/ \E k \in BuildKeys, v \in BuildValues : Plus(Len(objs), k, v)
    \/ ParseBack

SpecBuild == InitParse /\ [][NextBuild]_vars

---------------------------------------------------------------------------
(* Vocabulary of C13.                                                      *)

\* the decoded forms of the pairs of al
DecPairs(al) ==
    [i \in 1..Len(al) |-> [key_dec |-> al[i].key_dec, val_dec |-> al[i].val_dec]]

\* s has a code unit of a character above U+FFFF
HasSurrogate(s) == \E i \in 1..Len(s) : s[i] \in 55296..57343

\* a pair that plus made with the value null: its encoded value is "null"
NullByPlus(pair) == pair.val_dec = NULL /\ pair.val_enc # NULL

\* the pairs of al that come back as they are: the key is not empty and no
\* property of Object.prototype, the value is not a null given to plus and
\* has no character above U+FFFF
Recoverable(al) ==
    \A i \in 1..Len(al) :
        /\ al[i].key_dec # <<>>
        /\ al[i].key_dec \notin ObjectPrototypeNames
        /\ ~NullByPlus(al[i])
        /\ ~HasSurrogate(al[i].val_dec)

\* C13: for every q obtained from the constructor followed by any sequence
\* of plus(k, v) calls with k a string and v a string or null, the
\* constructor on q.toString() returns an instance with the same sequence
\* of (decoded key, decoded value) pairs as q.
C13_BuildRoundTrip ==
    (last.op = "new" /\ last.src # 0)
    => /\ ~last.threw
       /\ DecPairs(Result.alist) = DecPairs(Source.alist)

\* The decoded pairs come back whenever every pair of q is recoverable;
\* then each added pair is read as one pair and both decoders invert encode.
RecoveredWhenRecoverable ==
    (last.op = "new" /\ last.src # 0 /\ Recoverable(Source.alist))
    => /\ ~last.threw
       /\ DecPairs(Result.alist) = DecPairs(Source.alist)

\* two pairs with '=', '&', '%', '+', '?' and a space in key and value, one
\* of them with a character outside ASCII, were added and came back
BuildRecovered ==
    /\ last.op = "new" /\ last.src # 0 /\ ~last.threw
    /\ Recoverable(Source.alist)
    /\ Len(Source.alist) >= 2
    /\ \E i, j \in 1..Len(Source.alist) :
           /\ Source.alist[i].key_dec = <<EQ, AMP>>
           /\ Source.alist[i].val_dec = <<EQ, AMP, PCT, PLUS, QMARK, SPACE>>
           /\ Source.alist[j].key_dec = <<PCT, PLUS, QMARK, SPACE, 8480>>
           /\ Source.alist[j].val_dec = <<233, 8480>>
    /\ DecPairs(Result.alist) = DecPairs(Source.alist)

====
